---- MODULE Spec2Model ----
(***************************************************************************)
(* Model of nstarman/JaxStreams:                                           *)
(*   - the stream generator of JaxStreams_diffrax_refactored.py            *)
(*     (orbit_integrator_run, tidalr_mw, release_model, gen_stream_ics,    *)
(*     gen_stream_scan, gen_stream_vmapped),                               *)
(*   - the leapfrog integrator (leapfrog_step, leapfrog_run),              *)
(*   - the sub-key derivation of release_model,                            *)
(*   - galax's getitem_vec1time_index.                                     *)
(*                                                                         *)
(* Times are integers in units of 0.01 Myr, so that the 0.01 added to the  *)
(* final time by gen_stream_vmapped is the integer Eps.                    *)
(* A phase-space state produced by the adaptive integrator is the term     *)
(* [w0, t0, t]: "the solution launched from w0 at time t0, evaluated at    *)
(* time t"; the integrator is a deterministic function of these three.     *)
(***************************************************************************)
EXTENDS Integers, Sequences, FiniteSets, TLC

VARIABLES
    \* ---- stream generation (Potential.gen_stream_*) ----
    ts,          \* the time grid handed to the stream generator
    prog_w0,     \* the progenitor's initial state
    Msat,        \* satellite mass
    seed_num,    \* the seed
    potl,        \* the potential, as seen by tidalr_mw: per progenitor snapshot
                 \* time, omega^2 and d2phidr2
    pc,          \* position of the driver
    ws_jax,      \* progenitor orbit held by gen_stream_ics
    ics_carry,   \* carry of gen_stream_ics.scan_fun (the counter i)
    ics_out,     \* all_states of gen_stream_ics: sequence of 4-tuples
    scan_carry,  \* carry of gen_stream_scan.scan_fun
    scan_out,    \* all_states of gen_stream_scan: sequence of <<lead, trail>>
    scan_reads,  \* the indexed reads gen_stream_scan has made, in order
    vmap_out,    \* result of gen_stream_vmapped: sequence of <<lead, trail>>
    \* ---- leapfrog_run ----
    lf_ts,       \* time grid
    lf_w0,       \* initial state <<x, v>>
    lf_carry,    \* carry of leapfrog_run.scan_fun: [i, y0, t0, dt, a0]
    lf_ws,       \* states emitted so far (res_ws once finished)
    lf_steps,    \* per emitted state, the step <<t0, dt, tf>> that produced it
    lf_dts,      \* per iteration, <<computed step, carried step>>
    lf_pc,
    \* ---- release_model sub-keys ----
    rk_ints,     \* random_ints drawn from the master key, per seed (memoised)
    rk_calls,    \* the release_model calls made: sequence of call records
    \* ---- getitem_vec1time_index ----
    gi_index,    \* the index argument
    gi_t,        \* the time array (its shape)
    gi_result,   \* outcome of the call
    \* ---- Isochrone_centered.potential ----
    iso_args,    \* the call's arguments and parameters: xyz, t, t_min, t_max
    iso_result,  \* the potential returned: the sequence of its summed terms
    \* ---- release_model geometry ----
    rg_in,       \* progenitor x, v, tidal radius and the four draws
    rg_out       \* pos_lead, pos_trail, v_lead, v_trail (scaled), once computed

vars == <<ts, prog_w0, Msat, seed_num, potl, pc, ws_jax, ics_carry, ics_out,
          scan_carry, scan_out, scan_reads, vmap_out,
          lf_ts, lf_w0, lf_carry, lf_ws, lf_steps, lf_dts, lf_pc,
          rk_ints, rk_calls, gi_index, gi_t, gi_result,
          iso_args, iso_result, rg_in, rg_out>>

streamVars == <<ts, prog_w0, Msat, seed_num, potl, pc, ws_jax, ics_carry,
                ics_out, scan_carry, scan_out, scan_reads, vmap_out>>
lfVars == <<lf_ts, lf_w0, lf_carry, lf_ws, lf_steps, lf_dts, lf_pc>>
rkVars == <<rk_ints, rk_calls>>
giVars == <<gi_index, gi_t, gi_result>>
isoVars == <<iso_args, iso_result>>
rgVars == <<rg_in, rg_out>>

-----------------------------------------------------------------------------
(* Bounds of the model *)

MaxLen == 3       \* longest time grid
MaxT == 3         \* largest grid time (units of 0.01 Myr)
MaxSeed == 1      \* seeds are 0..MaxSeed

(* Program constants *)

Eps == 1          \* the .01 of "ts[-1] + .01", in units of 0.01 Myr
G == 1            \* self._G for dimensionless units

-----------------------------------------------------------------------------
(* Array helpers *)

\* Python's optional argument: None, or a value
None == {}
Some(x) == {x}
IsNone(o) == o = {}
Get(o) == CHOOSE x \in o : TRUE

\* 0-based read arr[i] with a Python index: negative indices count from the
\* end, and an out-of-bounds index of a traced read is clamped (jax gather)
NormIdx(arr, i) == IF i < 0 THEN i + Len(arr) ELSE i
ClampIdx(arr, i) ==
    LET n == NormIdx(arr, i)
    IN  IF n < 0 THEN 0 ELSE IF n > Len(arr) - 1 THEN Len(arr) - 1 ELSE n
At(arr, i) == arr[ClampIdx(arr, i) + 1]
InBounds(arr, i) == NormIdx(arr, i) >= 0 /\ NormIdx(arr, i) <= Len(arr) - 1

\* arr[1:]
Rest(arr) == Tail(arr)

RECURSIVE SeqMin(_)
SeqMin(s) ==
    IF Len(s) = 1 THEN s[1]
    ELSE LET m == SeqMin(Tail(s)) IN IF s[1] < m THEN s[1] ELSE m

RECURSIVE SeqMax(_)
SeqMax(s) ==
    IF Len(s) = 1 THEN s[1]
    ELSE LET m == SeqMax(Tail(s)) IN IF s[1] > m THEN s[1] ELSE m

\* strictly increasing time grids with 2..MaxLen entries in 0..MaxT
Grids ==
    { g \in UNION { [1..n -> 0..MaxT] : n \in 2..MaxLen } :
        \A j \in 1..(Len(g) - 1) : g[j] < g[j + 1] }

-----------------------------------------------------------------------------
(* Orbit integrator *)

\* the solution launched from w0 at t0, evaluated at t
Flow(w0, t0, t) == [w0 |-> w0, t0 |-> t0, t |-> t]

\* SaveAt(t0=False, t1=True, ts=ts): the save times are the initial time when
\* t0 is set, then the entries of ts when ts is given, then the final time
\* when t1 is set
SaveAt_t0 == FALSE
SaveAt_t1 == TRUE
SaveTimes(t0, t1, save_ts) ==
    (IF SaveAt_t0 THEN <<t0>> ELSE <<>>)
    \o (IF IsNone(save_ts) THEN <<>> ELSE Get(save_ts))
    \o (IF SaveAt_t1 THEN <<t1>> ELSE <<>>)

\* Potential.orbit_integrator_run: solution.ys, one state per save time
orbit_integrator_run(w0, t0, t1, save_ts) ==
    LET times == SaveTimes(t0, t1, save_ts)
    IN  [j \in 1..Len(times) |-> Flow(w0, t0, times[j])]

-----------------------------------------------------------------------------
(* Tidal radius and release model *)

\* omega(x, v)^2 and d2phidr2_mw(x, t) of the progenitor state w
omega2(w) == potl[w.t].omega2
d2phidr2_mw(w, t) == potl[w.t].d2phidr2

\* Potential.tidalr_mw: (G*Msat / (omega^2 - d2phidr2)) ** (1/3) in floating
\* point: a zero denominator gives inf, a negative radicand gives nan; nothing
\* is raised
tidalr_mw(w, msat, t) ==
    LET den == omega2(w) - d2phidr2_mw(w, t)
    IN  [kind |-> IF den > 0 THEN "finite" ELSE IF den = 0 THEN "inf" ELSE "nan",
         num |-> G * msat,
         den |-> den]

\* Potential.release_model: the four outputs, each computed from the
\* progenitor state w, the release index i, the time t, the seed and the
\* tidal radius
release_model(w, msat, i, t, seed) ==
    LET rel == [w |-> w, i |-> i, t |-> t, seed |-> seed,
                r_tidal |-> tidalr_mw(w, msat, t)]
    IN  << [q |-> "pos_lead", rel |-> rel],
           [q |-> "pos_trail", rel |-> rel],
           [q |-> "v_lead", rel |-> rel],
           [q |-> "v_trail", rel |-> rel] >>

\* jnp.hstack([pos, vel]): a 6-vector initial condition
hstack(pos, vel) == [pos |-> pos, vel |-> vel]

-----------------------------------------------------------------------------
(* Stream generation *)

PotlTables(g) ==
    [ { g[j] : j \in 1..Len(g) } -> [omega2 : {0, 1}, d2phidr2 : {0, 1}] ]

InitStream ==
    /\ ts \in Grids
    /\ prog_w0 \in {"wa", "wb"}
    /\ Msat = 1
    /\ seed_num \in 0..MaxSeed
    /\ potl \in PotlTables(ts)
    /\ pc = "start"
    /\ ws_jax = <<>>
    /\ ics_carry = 0
    /\ ics_out = <<>>
    /\ scan_carry = [i |-> 0, ic |-> <<>>]
    /\ scan_out = <<>>
    /\ scan_reads = <<>>
    /\ vmap_out = <<>>

\* gen_stream_ics up to the scan: the progenitor orbit over the grid
GenStreamIcsBegin ==
    /\ ws_jax' = orbit_integrator_run(prog_w0, SeqMin(ts), SeqMax(ts), Some(ts))
    /\ ics_carry' = 0
    /\ ics_out' = <<>>

\* gen_stream_scan called: it first calls gen_stream_ics
CallGenStreamScan ==
    /\ UNCHANGED <<lfVars, rkVars, giVars, isoVars, rgVars>>
    /\ pc = "start"
    /\ GenStreamIcsBegin
    /\ pc' = "scan_ics"
    /\ UNCHANGED <<ts, prog_w0, Msat, seed_num, potl, scan_carry, scan_out, scan_reads, vmap_out>>

\* gen_stream_ics.scan_fun applied to the next element of ts[1:]
ics_scan_fun(carry, t) ==
    LET i == carry
        new == release_model(At(ws_jax, i), Msat, i, t, seed_num)
    IN  [carry |-> i + 1, y |-> new]

IcsStep ==
    /\ UNCHANGED <<lfVars, rkVars, giVars, isoVars, rgVars>>
    /\ pc \in {"scan_ics", "vmap_ics"}
    /\ Len(ics_out) < Len(Rest(ts))
    /\ LET r == ics_scan_fun(ics_carry, Rest(ts)[Len(ics_out) + 1])
       IN  /\ ics_carry' = r.carry
           /\ ics_out' = Append(ics_out, r.y)
    /\ UNCHANGED <<ts, prog_w0, Msat, seed_num, potl, pc, ws_jax, scan_carry,
                   scan_out, scan_reads, vmap_out>>

\* the four arrays gen_stream_ics returns
pos_close_arr == [k \in 1..Len(ics_out) |-> ics_out[k][1]]
pos_far_arr == [k \in 1..Len(ics_out) |-> ics_out[k][2]]
vel_close_arr == [k \in 1..Len(ics_out) |-> ics_out[k][3]]
vel_far_arr == [k \in 1..Len(ics_out) |-> ics_out[k][4]]

IcsDone == Len(ics_out) = Len(Rest(ts))

\* the read arr[i] of the array called name, and whether i is a valid index
Read(name, arr, i) == [arr |-> name, idx |-> i, len |-> Len(arr), ok |-> InBounds(arr, i)]

\* gen_stream_scan: init_carry after gen_stream_ics returned
ScanBegin ==
    /\ UNCHANGED <<lfVars, rkVars, giVars, isoVars, rgVars>>
    /\ pc = "scan_ics"
    /\ IcsDone
    /\ scan_carry' = [i |-> 0,
                      ic |-> << At(pos_close_arr, 0), At(pos_far_arr, 0),
                                At(vel_close_arr, 0), At(vel_far_arr, 0) >>]
    /\ scan_out' = <<>>
    /\ scan_reads' = << Read("pos_close_arr", pos_close_arr, 0),
                        Read("pos_far_arr", pos_far_arr, 0),
                        Read("vel_close_arr", vel_close_arr, 0),
                        Read("vel_far_arr", vel_far_arr, 0) >>
    /\ pc' = "scan"
    /\ UNCHANGED <<ts, prog_w0, Msat, seed_num, potl, ws_jax, ics_carry,
                   ics_out, vmap_out>>

\* gen_stream_scan.scan_fun
scan_fun(carry, particle_idx) ==
    LET i == carry.i
        curr_particle_w0_close == hstack(carry.ic[1], carry.ic[3])
        curr_particle_w0_far == hstack(carry.ic[2], carry.ic[4])
        minval == At(ts, i)
        maxval == At(ts, -1)
        w_particle_close ==
            At(orbit_integrator_run(curr_particle_w0_close, minval, maxval, None), 0)
        w_particle_far ==
            At(orbit_integrator_run(curr_particle_w0_far, minval, maxval, None), 0)
    IN  [carry |-> [i |-> i + 1,
                    ic |-> << At(pos_close_arr, i + 1), At(pos_far_arr, i + 1),
                              At(vel_close_arr, i + 1), At(vel_far_arr, i + 1) >>],
         y |-> <<w_particle_close, w_particle_far>>,
         reads |-> << Read("ts", ts, i), Read("ts", ts, -1),
                      Read("pos_close_arr", pos_close_arr, i + 1),
                      Read("pos_far_arr", pos_far_arr, i + 1),
                      Read("vel_close_arr", vel_close_arr, i + 1),
                      Read("vel_far_arr", vel_far_arr, i + 1) >>]

ScanStep ==
    /\ UNCHANGED <<lfVars, rkVars, giVars, isoVars, rgVars>>
    /\ pc = "scan"
    /\ Len(scan_out) < Len(pos_close_arr)
    /\ LET r == scan_fun(scan_carry, Len(scan_out))
       IN  /\ scan_carry' = r.carry
           /\ scan_out' = Append(scan_out, r.y)
           /\ scan_reads' = scan_reads \o r.reads
    /\ UNCHANGED <<ts, prog_w0, Msat, seed_num, potl, pc, ws_jax, ics_carry,
                   ics_out, vmap_out>>

\* gen_stream_scan returned; gen_stream_vmapped is called on the same inputs
\* and calls gen_stream_ics itself
CallGenStreamVmapped ==
    /\ UNCHANGED <<lfVars, rkVars, giVars, isoVars, rgVars>>
    /\ pc = "scan"
    /\ Len(scan_out) = Len(pos_close_arr)
    /\ GenStreamIcsBegin
    /\ pc' = "vmap_ics"
    /\ UNCHANGED <<ts, prog_w0, Msat, seed_num, potl, scan_carry, scan_out, scan_reads, vmap_out>>

\* gen_stream_vmapped.single_particle_integrate
single_particle_integrate(particle_number, pos_close_curr, pos_far_curr, vel_close_curr, vel_far_curr) ==
    LET curr_particle_w0_close == hstack(pos_close_curr, vel_close_curr)
        curr_particle_w0_far == hstack(pos_far_curr, vel_far_curr)
        t_release == At(ts, particle_number)
        t_final == At(ts, -1) + Eps
        w_particle_close ==
            At(orbit_integrator_run(curr_particle_w0_close, t_release, t_final, None), 0)
        w_particle_far ==
            At(orbit_integrator_run(curr_particle_w0_far, t_release, t_final, None), 0)
    IN  <<w_particle_close, w_particle_far>>

\* the vmap over particle_ids = arange(len(pos_close_arr)) and the four arrays
VmapIntegrate ==
    /\ UNCHANGED <<lfVars, rkVars, giVars, isoVars, rgVars>>
    /\ pc = "vmap_ics"
    /\ IcsDone
    /\ vmap_out' = [n \in 1..Len(pos_close_arr) |->
                      single_particle_integrate(n - 1, pos_close_arr[n], pos_far_arr[n],
                                                vel_close_arr[n], vel_far_arr[n])]
    /\ pc' = "done"
    /\ UNCHANGED <<ts, prog_w0, Msat, seed_num, potl, ws_jax, ics_carry, ics_out,
                   scan_carry, scan_out, scan_reads>>

NextStream ==
    \/ CallGenStreamScan
    \/ IcsStep
    \/ ScanBegin
    \/ ScanStep
    \/ CallGenStreamVmapped
    \/ VmapIntegrate

-----------------------------------------------------------------------------
(* Leapfrog integrator, one spatial dimension (ndim = 1): y = <<x, v>>.      *)
(* Grid times are even integers, so that dt / 2 is exact.                    *)

LfMaxLen == 4     \* longest leapfrog time grid
LfMaxN == 4       \* leapfrog grid times are 0, 2, .., 2 * LfMaxN

\* the potential_gradient argument: a harmonic well, grad(x, t) = x
potential_gradient(x, t) == x

\* non-decreasing grids (a repeated time gives a zero step)
LfGrids ==
    { g \in UNION { [1..n -> { 2 * m : m \in 0..LfMaxN }] : n \in 2..LfMaxLen } :
        \A j \in 1..(Len(g) - 1) : g[j] <= g[j + 1] }

\* leapfrog_step(func, y0, t0, dt, a0) -> (tf, yf, af)
leapfrog_step(y0, t0, dt, a0) ==
    LET tf == t0 + dt
        x0 == y0[1]
        v0 == y0[2]
        v1_2 == v0 + (a0 * dt) \div 2
        xf == x0 + v1_2 * dt
        af == 0 - potential_gradient(xf, tf)
        vf == v1_2 + (af * dt) \div 2
    IN  [tf |-> tf, yf |-> <<xf, vf>>, af |-> af]

Abs(n) == IF n < 0 THEN 0 - n ELSE n

\* variants of CarriedDt: the two branches exchanged; the computed step kept
SwappedCarriedDt(grid, dt_new) ==
    IF Abs(dt_new) > 0 THEN 0 ELSE At(grid, -1) - At(grid, -2)
ComputedCarriedDt(grid, dt_new) == dt_new

\* the step size leapfrog_run.scan_fun carries on, from the one it computed:
\* jax.lax.cond(|dt_new| > 0, true_func, false_func, dt_new), where true_func
\* returns ts[-1] - ts[-2] and false_func returns 0.0
CarriedDt(grid, dt_new) ==
    IF Abs(dt_new) > 0 THEN At(grid, -1) - At(grid, -2) ELSE 0

\* leapfrog_run.scan_fun(carry, t)
lf_scan_fun(carry, t) ==
    LET s == leapfrog_step(carry.y0, carry.t0, carry.dt, carry.a0)
        dt_new == At(lf_ts, carry.i + 1) - At(lf_ts, carry.i)
    IN  [carry |-> [i |-> carry.i + 1, y0 |-> s.yf, t0 |-> s.tf,
                    dt |-> CarriedDt(lf_ts, dt_new), a0 |-> s.af],
         y |-> s.yf,
         step |-> <<carry.t0, carry.dt, s.tf>>,
         dts |-> <<dt_new, CarriedDt(lf_ts, dt_new)>>]

LfIdleCarry == [i |-> 0, y0 |-> <<0, 0>>, t0 |-> 0, dt |-> 0, a0 |-> 0]

InitLeapfrog ==
    /\ lf_ts \in LfGrids
    /\ lf_w0 \in { <<1, 0>>, <<1, 1>> }
    /\ lf_carry = LfIdleCarry
    /\ lf_ws = <<>>
    /\ lf_steps = <<>>
    /\ lf_dts = <<>>
    /\ lf_pc = "start"

\* leapfrog_run up to the scan: a0, dt and init_carry
LfBegin ==
    /\ UNCHANGED <<streamVars, rkVars, giVars, isoVars, rgVars>>
    /\ lf_pc = "start"
    /\ lf_carry' = [i |-> 0, y0 |-> lf_w0, t0 |-> At(lf_ts, 0),
                    dt |-> At(lf_ts, 1) - At(lf_ts, 0),
                    a0 |-> 0 - potential_gradient(lf_w0[1], At(lf_ts, 0))]
    /\ lf_pc' = "scan"
    /\ UNCHANGED <<lf_ts, lf_w0, lf_ws, lf_steps, lf_dts>>

\* one iteration of jax.lax.scan(scan_fun, init_carry, ts[1:])
LfStep ==
    /\ UNCHANGED <<streamVars, rkVars, giVars, isoVars, rgVars>>
    /\ lf_pc = "scan"
    /\ Len(lf_ws) < Len(Rest(lf_ts))
    /\ LET r == lf_scan_fun(lf_carry, Rest(lf_ts)[Len(lf_ws) + 1])
       IN  /\ lf_carry' = r.carry
           /\ lf_ws' = Append(lf_ws, r.y)
           /\ lf_steps' = Append(lf_steps, r.step)
           /\ lf_dts' = Append(lf_dts, r.dts)
    /\ UNCHANGED <<lf_ts, lf_w0, lf_pc>>

\* res_ws = jnp.concatenate((w0[None], ws))
LfReturn ==
    /\ UNCHANGED <<streamVars, rkVars, giVars, isoVars, rgVars>>
    /\ lf_pc = "scan"
    /\ Len(lf_ws) = Len(Rest(lf_ts))
    /\ lf_ws' = <<lf_w0>> \o lf_ws
    /\ lf_pc' = "done"
    /\ UNCHANGED <<lf_ts, lf_w0, lf_carry, lf_steps, lf_dts>>

NextLeapfrog ==
    \/ LfBegin
    \/ LfStep
    \/ LfReturn

-----------------------------------------------------------------------------
(* Sub-keys of release_model                                                 *)

MaxRkSeed == 1    \* seeds of the key derivation are 0..MaxRkSeed
MaxDraw == 1      \* the integers drawn from the master key are in 0..MaxDraw
MaxIdx == 2       \* release indices are 0..MaxIdx
NAxes == 5        \* shape=(5,): keya .. keye

\* jax.random.PRNGKey(n) for 0 <= n < 2^32: the two 32-bit words of n
PRNGKey(n) == <<0, n>>

\* jax.random.normal(key, shape=(1,)): the draw is a function of the key alone
normal(key) == [draw |-> key]

\* keya .. keye = PRNGKey(i * random_ints[0 .. 4])
release_keys(i, random_ints) ==
    [k \in 1..NAxes |-> PRNGKey(i * random_ints[k])]

\* kr_samp, kvphi_samp, kz_samp, kvz_samp: each a function of the draws named
\* (keye is derived and not used)
release_samples(keys) ==
    [kr_samp |-> <<normal(keys[1])>>,
     kvphi_samp |-> <<normal(keys[1]), normal(keys[2])>>,
     kz_samp |-> <<normal(keys[3])>>,
     kvz_samp |-> <<normal(keys[4])>>]

\* the possible results of jax.random.randint(key_master, (5,), 0, 1000)
Draws == [1..NAxes -> 0..MaxDraw]

InitRelease ==
    /\ rk_ints = << >>
    /\ rk_calls = << >>

\* one call release_model(x, v, Msat, i, t, seed_num): key_master, random_ints
\* (the same for the same key_master), the five sub-keys and the samples
ReleaseCall(seed, i) ==
    /\ UNCHANGED <<streamVars, lfVars, giVars, isoVars, rgVars>>
    /\ Len(rk_calls) < 2
    /\ Len(rk_calls) = 1 => (rk_calls[1].seed = seed \/ rk_calls[1].i = i)
    /\ LET key_master == PRNGKey(seed)
       IN  \E random_ints \in Draws :
             /\ key_master \in DOMAIN rk_ints => random_ints = rk_ints[key_master]
             /\ rk_ints' = (key_master :> random_ints) @@ rk_ints
             /\ LET keys == release_keys(i, random_ints)
                IN  rk_calls' = Append(rk_calls,
                                  [seed |-> seed, i |-> i, ints |-> random_ints,
                                   keys |-> keys, samples |-> release_samples(keys)])

NextRelease ==
    \E seed \in 0..MaxRkSeed, i \in 0..MaxIdx : ReleaseCall(seed, i)

-----------------------------------------------------------------------------
(* getitem_vec1time_index                                                    *)

MaxRank == 2      \* the time array has rank 0..MaxRank
MaxIndexDims == 3 \* tuple indices and index arrays have 0..MaxIndexDims dimensions

\* index values
IntIndex(n) == [kind |-> "int", val |-> <<n>>]
SliceIndex(a, b) == [kind |-> "slice", val |-> <<a, b>>]
SliceNone == [kind |-> "slice", val |-> <<>>]
TupleIndex(items) == [kind |-> "tuple", val |-> items]
ShapedIndex(shape) == [kind |-> "shaped", val |-> shape]
\* jnp.asarray([True])
MaskTrue == [kind |-> "shaped", val |-> <<1>>]

Returned(v) == [outcome |-> "return", value |-> v, shape |-> <<>>]
IndexError(index, shape) == [outcome |-> "IndexError", value |-> index, shape |-> shape]
Pending == [outcome |-> "pending", value |-> SliceNone, shape |-> <<>>]

isinstance_tuple(index) == index.kind = "tuple"
isinstance_HasShape(index) == index.kind = "shaped"
ndim(t) == Len(t)

\* variants of the dimension test of the two helpers: > in place of >=
TupleTooManyStrict(index, t) == Len(index.val) > ndim(t)
ShapedTooManyStrict(index, t) == Len(index.val) > ndim(t)

\* variant of the tuple test: an index one dimension short is refused too
TupleTooManyOffByOne(index, t) == Len(index.val) + 1 >= ndim(t)

\* len(index) >= t.ndim and len(index.shape) >= t.ndim
TupleTooMany(index, t) == Len(index.val) >= ndim(t)
ShapedTooMany(index, t) == Len(index.val) >= ndim(t)

\* _getitem_vec1time_index_tuple
getitem_vec1time_index_tuple(index, t) ==
    IF Len(index.val) = 0 THEN Returned(SliceNone)
    ELSE IF ndim(t) = 1 THEN Returned(SliceNone)
    ELSE IF TupleTooMany(index, t) THEN IndexError(index, t)
    ELSE Returned(index)

\* variant of the shaped helper: the collapse only for a one-element time array
getitem_vec1time_index_shaped_Sz1(index, t) ==
    IF t = <<1>> THEN Returned(MaskTrue)
    ELSE IF ShapedTooMany(index, t) THEN IndexError(index, t)
    ELSE Returned(index)

\* _getitem_vec1time_index_shaped
getitem_vec1time_index_shaped(index, t) ==
    IF ndim(t) = 1 THEN Returned(MaskTrue)
    ELSE IF ShapedTooMany(index, t) THEN IndexError(index, t)
    ELSE Returned(index)

\* getitem_vec1time_index
getitem_vec1time_index(index, t) ==
    IF isinstance_tuple(index) THEN getitem_vec1time_index_tuple(index, t)
    ELSE IF isinstance_HasShape(index) THEN getitem_vec1time_index_shaped(index, t)
    ELSE Returned(index)

SeqsUpTo(S, n) == UNION { [1..m -> S] : m \in 0..n }

Indices ==
    { IntIndex(n) : n \in 0..2 }
    \cup { SliceNone, SliceIndex(0, 3), SliceIndex(1, 3) }
    \cup { TupleIndex(items) :
             items \in SeqsUpTo({ IntIndex(1), SliceNone }, MaxIndexDims) }
    \cup { ShapedIndex(shape) : shape \in SeqsUpTo({1, 2}, MaxIndexDims) }

TimeShapes == SeqsUpTo({1, 3}, MaxRank)

InitIndex ==
    /\ gi_index \in Indices
    /\ gi_t \in TimeShapes
    /\ gi_result = Pending

GetItem ==
    /\ UNCHANGED <<streamVars, lfVars, rkVars, isoVars, rgVars>>
    /\ gi_result = Pending
    /\ gi_result' = getitem_vec1time_index(gi_index, gi_t)
    /\ UNCHANGED <<gi_index, gi_t>>

NextIndex == GetItem

-----------------------------------------------------------------------------
(* Isochrone_centered.potential                                              *)
(* A potential value is the sequence of the Isochrone terms it sums; a term  *)
(* names the mass, the scale and the (relative) position it is evaluated at. *)

MaxIsoT == 4      \* t, t_min and t_max are in 0..MaxIsoT

\* Isochrone(m, a).potential(xyz, t): one term, independent of t
Isochrone_potential(m, a, xyz, t) == << [m |-> m, a |-> a, at |-> xyz] >>

\* self.spline_eval_func(t, self.splines): the moving centre at time t
spline_eval_func(t) == <<t, 0, 0>>

VecSub(u, w) == [k \in 1..3 |-> u[k] - w[k]]

\* variant of the window test: both endpoints included
is_cond_met_closed(t, t_min, t_max) == (t >= t_min) /\ (t <= t_max)

\* is_cond_met = (t > self.t_min) & (t < self.t_max)
is_cond_met(t, t_min, t_max) == (t > t_min) /\ (t < t_max)

\* true_func(xyz_t): the moving Isochrone about the spline position plus the
\* background
iso_true_func(xyz_t) ==
    LET xyz_ == SubSeq(xyz_t, 1, 3)
        t == xyz_t[Len(xyz_t)]
        xyz == VecSub(xyz_, spline_eval_func(t))
    IN  Isochrone_potential("m", "a", xyz, t)
        \o Isochrone_potential("m_ext", "a_ext", xyz_, t)

\* false_func(xyz_t): the background alone
iso_false_func(xyz_t) ==
    LET xyz == SubSeq(xyz_t, 1, 3)
        t == xyz_t[Len(xyz_t)]
    IN  Isochrone_potential("m_ext", "a_ext", xyz, t)

\* Isochrone_centered.potential(xyz, t)
Isochrone_centered_potential(xyz, t, t_min, t_max) ==
    LET xyz_t == xyz \o <<t>>
    IN  IF is_cond_met(t, t_min, t_max) THEN iso_true_func(xyz_t)
        ELSE iso_false_func(xyz_t)

InitIsochrone ==
    /\ iso_args \in [xyz : { <<1, 0, 0>>, <<2, 1, 0>> },
                     t : 0..MaxIsoT, t_min : 0..MaxIsoT, t_max : 0..MaxIsoT]
    /\ iso_result = <<>>

IsoPotential ==
    /\ UNCHANGED <<streamVars, lfVars, rkVars, giVars, rgVars>>
    /\ iso_result = <<>>
    /\ iso_result' = Isochrone_centered_potential(iso_args.xyz, iso_args.t,
                                                  iso_args.t_min, iso_args.t_max)
    /\ UNCHANGED iso_args

NextIsochrone == IsoPotential

-----------------------------------------------------------------------------
(* release_model: the geometry of the two arms (lines 174-230)               *)
(* Floating-point values are modelled exactly: a scalar is finite (an        *)
(* integer), an infinity with a sign, or nan.  Positions are held in tenths  *)
(* and velocities in hundredths, so that 0.5 and 0.3 are whole numbers.      *)

MaxX == 1         \* progenitor position components are in -MaxX..MaxX
MaxV == 1         \* progenitor velocity components are in -MaxV..MaxV

Fin(n) == [k |-> "fin", v |-> n]
NaN == [k |-> "nan", v |-> 0]
Inf(sg) == [k |-> "inf", v |-> sg]
Sgn(n) == IF n > 0 THEN 1 ELSE IF n < 0 THEN -1 ELSE 0

\* IEEE negation, product, sum and quotient
FNeg(a) == IF a.k = "nan" THEN NaN ELSE [k |-> a.k, v |-> -a.v]
FMul(a, b) ==
    IF a.k = "nan" \/ b.k = "nan" THEN NaN
    ELSE IF a.k = "fin" /\ b.k = "fin" THEN Fin(a.v * b.v)
    ELSE IF a.v = 0 \/ b.v = 0 THEN NaN
    ELSE Inf(Sgn(a.v) * Sgn(b.v))
FAdd(a, b) ==
    IF a.k = "nan" \/ b.k = "nan" THEN NaN
    ELSE IF a.k = "fin" /\ b.k = "fin" THEN Fin(a.v + b.v)
    ELSE IF a.k = "inf" /\ b.k = "inf" THEN (IF a.v = b.v THEN a ELSE NaN)
    ELSE IF a.k = "inf" THEN a ELSE b
FSub(a, b) == FAdd(a, FNeg(b))
FDiv(a, b) ==
    IF a.k = "nan" \/ b.k = "nan" THEN NaN
    ELSE IF a.k = "inf" /\ b.k = "inf" THEN NaN
    ELSE IF a.k = "inf" THEN Inf(IF b.v < 0 THEN -a.v ELSE a.v)
    ELSE IF b.k = "inf" THEN Fin(0)
    ELSE IF b.v = 0 THEN (IF a.v = 0 THEN NaN ELSE Inf(Sgn(a.v)))
    ELSE Fin((Sgn(a.v) * Sgn(b.v)) * ((a.v * Sgn(a.v)) \div (b.v * Sgn(b.v))))

\* vectors of three scalars
VFin(u) == << Fin(u[1]), Fin(u[2]), Fin(u[3]) >>
VAdd(u, w) == << FAdd(u[1], w[1]), FAdd(u[2], w[2]), FAdd(u[3], w[3]) >>
VSub(u, w) == << FSub(u[1], w[1]), FSub(u[2], w[2]), FSub(u[3], w[3]) >>
VNeg(u) == << FNeg(u[1]), FNeg(u[2]), FNeg(u[3]) >>
VScale(u, a) == << FMul(u[1], a), FMul(u[2], a), FMul(u[3], a) >>
VDivS(u, a) == << FDiv(u[1], a), FDiv(u[2], a), FDiv(u[3], a) >>

\* jnp.sum(u * w)
VDot(u, w) == FAdd(FAdd(FMul(u[1], w[1]), FMul(u[2], w[2])), FMul(u[3], w[3]))

\* the square root of a perfect square
ISqrt(n) == CHOOSE r \in 0..n : r * r = n

\* jnp.linalg.norm(u)
VNorm(u) ==
    IF \E k \in 1..3 : u[k].k = "nan" THEN NaN
    ELSE IF \E k \in 1..3 : u[k].k = "inf" THEN Inf(1)
    ELSE Fin(ISqrt(u[1].v * u[1].v + u[2].v * u[2].v + u[3].v * u[3].v))

\* jnp.cross(x, v)
cross(x, v) ==
    << FSub(FMul(x[2], v[3]), FMul(x[3], v[2])),
       FSub(FMul(x[3], v[1]), FMul(x[1], v[3])),
       FSub(FMul(x[1], v[2]), FMul(x[2], v[1])) >>

\* Potential.omega(x, v)
omega(x, v) ==
    LET rad == VNorm(x)
        omega_vec == VDivS(cross(x, v), FMul(rad, rad))
    IN  VNorm(omega_vec)

\* r_hat = x / r
r_hat(x) == VDivS(x, VNorm(x))

\* z_hat = L_vec / |L_vec|
z_hat(x, v) == VDivS(cross(x, v), VNorm(cross(x, v)))

\* phi_vec = v - sum(v * r_hat) * r_hat
phi_vec(x, v) == VSub(v, VScale(r_hat(x), VDot(v, r_hat(x))))

\* phi_hat = phi_vec / |phi_vec|
phi_hat(x, v) == VDivS(phi_vec(x, v), VNorm(phi_vec(x, v)))

\* the means and dispersions of the four scale factors, in tenths
kr_bar == 20
kvphi_bar == 3
kz_bar == 0
kvz_bar == 0
sigma_kr == 5
sigma_kvphi == 5
sigma_kz == 5
sigma_kvz == 5

\* one position unit in tenths, one velocity unit in hundredths, and one
\* tenth in hundredths
PosUnit == 10
VelUnit == 100
TenthInHundredths == 10

\* the sampled scale factors; normal_k is the draw jax.random.normal(key_k)
kr_samp(normal_a) == Fin(kr_bar + normal_a * sigma_kr)
kvphi_samp(normal_a, normal_b) == FMul(kr_samp(normal_a), Fin(kvphi_bar + normal_b * sigma_kvphi))
kz_samp(normal_c) == Fin(kz_bar + normal_c * sigma_kz)
kvz_samp(normal_d) == Fin(kvz_bar + normal_d * sigma_kvz)

\* variant of the leading arm with the vertical nudge on the trailing side
pos_lead_same_side(x, v, r_tidal, kr, kz) ==
    VAdd(VAdd(VScale(x, Fin(PosUnit)),
              VScale(VScale(r_hat(x), kr), FNeg(r_tidal))),
         VScale(VScale(z_hat(x, v), kz), r_tidal))

\* pos_trail = x + kr_samp*r_hat*(r_tidal); + z_hat*kz_samp*(r_tidal/1.0)
pos_trail(x, v, r_tidal, kr, kz) ==
    VAdd(VAdd(VScale(x, Fin(PosUnit)),
              VScale(VScale(r_hat(x), kr), r_tidal)),
         VScale(VScale(z_hat(x, v), kz), r_tidal))

\* pos_lead = x + kr_samp*r_hat*(-r_tidal); + z_hat*kz_samp*(-r_tidal/1.0)
pos_lead(x, v, r_tidal, kr, kz) ==
    VAdd(VAdd(VScale(x, Fin(PosUnit)),
              VScale(VScale(r_hat(x), kr), FNeg(r_tidal))),
         VScale(VScale(z_hat(x, v), kz), FNeg(r_tidal)))

\* v_trail = v + (0.0 + kvphi_samp*v_circ*(1.0))*phi_hat;
\*           + (kvz_samp*v_circ*(1.0))*z_hat
v_trail(x, v, v_circ, kvphi, kvz) ==
    VAdd(VAdd(VScale(v, Fin(VelUnit)),
              VScale(phi_hat(x, v), FMul(FMul(kvphi, v_circ), Fin(1)))),
         VScale(z_hat(x, v),
                FMul(Fin(TenthInHundredths), FMul(FMul(kvz, v_circ), Fin(1)))))

\* v_lead = v + (0.0 + kvphi_samp*v_circ*(-1.0))*phi_hat;
\*          + (kvz_samp*v_circ*(-1.0))*z_hat
v_lead(x, v, v_circ, kvphi, kvz) ==
    VAdd(VAdd(VScale(v, Fin(VelUnit)),
              VScale(phi_hat(x, v), FMul(FMul(kvphi, v_circ), Fin(-1)))),
         VScale(z_hat(x, v),
                FMul(Fin(TenthInHundredths), FMul(FMul(kvz, v_circ), Fin(-1)))))

\* release_model(x, v, ...) from line 174 on, given the tidal radius and the
\* four draws: pos_lead, pos_trail (tenths), v_lead, v_trail (hundredths)
release_geometry(x, v, r_tidal, normal_a, normal_b, normal_c, normal_d) ==
    LET xf == VFin(x)
        vf == VFin(v)
        omega_val == omega(xf, vf)
        rel_v == FMul(omega_val, r_tidal)
        v_circ == rel_v
        kr == kr_samp(normal_a)
        kvphi == kvphi_samp(normal_a, normal_b)
        kz == kz_samp(normal_c)
        kvz == kvz_samp(normal_d)
    IN  [pos_lead |-> pos_lead(xf, vf, r_tidal, kr, kz),
         pos_trail |-> pos_trail(xf, vf, r_tidal, kr, kz),
         v_lead |-> v_lead(xf, vf, v_circ, kvphi, kvz),
         v_trail |-> v_trail(xf, vf, v_circ, kvphi, kvz)]

\* integer vectors with at most one non-zero component: their norm is whole
Vec3(m) == { u \in [1..3 -> -m..m] : TRUE }
OnAxis(u) == Cardinality({k \in 1..3 : u[k] # 0}) <= 1
IntCross(x, v) == << x[2]*v[3] - x[3]*v[2], x[3]*v[1] - x[1]*v[3], x[1]*v[2] - x[2]*v[1] >>
IntDot(u, w) == u[1]*w[1] + u[2]*w[2] + u[3]*w[3]

\* progenitor states whose norms and quotients are whole numbers: x has one
\* non-zero component (or none), the part of v across x has at most one, and
\* |x|^2 divides the angular momentum
ExactStates ==
    { s \in Vec3(MaxX) \X Vec3(MaxV) :
        /\ OnAxis(s[1])
        /\ OnAxis([k \in 1..3 |-> IF s[1][k] # 0 THEN 0 ELSE s[2][k]])
        /\ s[1] # <<0, 0, 0>> =>
             \A k \in 1..3 : IntCross(s[1], s[2])[k] % IntDot(s[1], s[1]) = 0 }

\* the values tidalr_mw returns: finite and positive, inf, nan
RTidals == { Fin(1), Fin(2), Inf(1), NaN }

\* the values of one draw
Normals == { -1, 0, 1 }

InitGeometry ==
    /\ \E s \in ExactStates :
         rg_in \in [x : {s[1]}, v : {s[2]}, r_tidal : RTidals,
                    normal : [1..4 -> Normals]]
    /\ rg_out = <<>>

ReleaseGeometry ==
    /\ UNCHANGED <<streamVars, lfVars, rkVars, giVars, isoVars>>
    /\ rg_out = <<>>
    /\ rg_out' = release_geometry(rg_in.x, rg_in.v, rg_in.r_tidal,
                                  rg_in.normal[1], rg_in.normal[2],
                                  rg_in.normal[3], rg_in.normal[4])
    /\ UNCHANGED rg_in

NextGeometry == ReleaseGeometry

-----------------------------------------------------------------------------
(* Specifications: each runs one part of the program, the others at rest *)

StreamIdle ==
    /\ ts = <<>>
    /\ prog_w0 = "wa"
    /\ Msat = 1
    /\ seed_num = 0
    /\ potl = <<>>
    /\ pc = "idle"
    /\ ws_jax = <<>>
    /\ ics_carry = 0
    /\ ics_out = <<>>
    /\ scan_carry = [i |-> 0, ic |-> <<>>]
    /\ scan_out = <<>>
    /\ scan_reads = <<>>
    /\ vmap_out = <<>>

LfIdle ==
    /\ lf_ts = <<>>
    /\ lf_w0 = <<0, 0>>
    /\ lf_carry = LfIdleCarry
    /\ lf_ws = <<>>
    /\ lf_steps = <<>>
    /\ lf_dts = <<>>
    /\ lf_pc = "idle"

RkIdle ==
    /\ rk_ints = << >>
    /\ rk_calls = << >>

GiIdle ==
    /\ gi_index = SliceNone
    /\ gi_t = <<>>
    /\ gi_result = Returned(SliceNone)

IsoIdle ==
    /\ iso_args = [xyz |-> <<0, 0, 0>>, t |-> 0, t_min |-> 0, t_max |-> 0]
    /\ iso_result = <<>>

RgIdle ==
    /\ rg_in = <<>>
    /\ rg_out = <<>>

Init == InitStream /\ LfIdle /\ RkIdle /\ GiIdle /\ IsoIdle /\ RgIdle
Next == NextStream
Spec == Init /\ [][Next]_vars

InitLf == InitLeapfrog /\ StreamIdle /\ RkIdle /\ GiIdle /\ IsoIdle /\ RgIdle
NextLf == NextLeapfrog
SpecLeapfrog == InitLf /\ [][NextLf]_vars

InitRk == InitRelease /\ StreamIdle /\ LfIdle /\ GiIdle /\ IsoIdle /\ RgIdle
NextRk == NextRelease
SpecRelease == InitRk /\ [][NextRk]_vars

InitGi == InitIndex /\ StreamIdle /\ LfIdle /\ RkIdle /\ IsoIdle /\ RgIdle
NextGi == NextIndex
SpecIndex == InitGi /\ [][NextGi]_vars

InitIso == InitIsochrone /\ StreamIdle /\ LfIdle /\ RkIdle /\ GiIdle /\ RgIdle
NextIso == NextIsochrone
SpecIsochrone == InitIso /\ [][NextIso]_vars

InitRg == InitGeometry /\ StreamIdle /\ LfIdle /\ RkIdle /\ GiIdle /\ IsoIdle
NextRg == NextGeometry
SpecGeometry == InitRg /\ [][NextRg]_vars

-----------------------------------------------------------------------------
(* Claims about the stream generator (specification Spec)                    *)

\* the progenitor state at grid snapshot j (0-based)
Snapshot(j) == Flow(prog_w0, SeqMin(ts), At(ts, j))

\* the release record an initial condition w0 = hstack(pos, vel) was made from
RelOf(final) == final.w0.pos.rel

\* C1: for the same inputs the sequential and the batched strategy produce
\* the same final state for every release event and both arms (same initial
\* condition, same start time, same end time).
C1_SameFinalStates ==
    pc = "done" =>
        /\ Len(scan_out) = Len(vmap_out)
        /\ \A k \in 1..Len(scan_out) : \A arm \in 1..2 :
               scan_out[k][arm] = vmap_out[k][arm]

\* C2: gen_stream_ics returns len(ts) - 1 entries; entry k (0-based) is the
\* release model applied to the progenitor state at snapshot k + 1 with the
\* time ts[k + 1] of that snapshot, and snapshot 0 is never a release state.
C2_ReleaseAtNextSnapshot ==
    /\ pc \in {"scan", "done"} => Len(ics_out) = Len(ts) - 1
    /\ \A k \in 1..Len(ics_out) : \A q \in 1..4 :
           LET rel == ics_out[k][q].rel
           IN  /\ rel.w = Snapshot(k)
               /\ rel.t = At(ts, k)
               /\ rel.w # Snapshot(0)

\* C3: in both strategies the particles of event k start their integration at
\* the time that was passed to the release model for event k, and the
\* sequential strategy ends at ts[-1].
C3_StartAtReleaseTime ==
    /\ \A k \in 1..Len(scan_out) : \A arm \in 1..2 :
           /\ scan_out[k][arm].t0 = RelOf(scan_out[k][arm]).t
           /\ scan_out[k][arm].t = At(ts, -1)
    /\ \A k \in 1..Len(vmap_out) : \A arm \in 1..2 :
           vmap_out[k][arm].t0 = RelOf(vmap_out[k][arm]).t

\* C4: with a save grid the integrator returns exactly the states at the grid
\* times (len(ts) entries, the j-th at ts[j]); with ts = None exactly one
\* state, the one at t1.
C4_SavePolicy ==
    pc # "start" =>
        /\ Len(ws_jax) = Len(ts)
        /\ \A j \in 1..Len(ws_jax) : ws_jax[j] = Snapshot(j - 1)
        /\ orbit_integrator_run(prog_w0, SeqMin(ts), SeqMax(ts), None)
               = << Flow(prog_w0, SeqMin(ts), SeqMax(ts)) >>

\* C9: a zero or negative omega^2 - d2phidr2 ends stream generation in a
\* DegenerateTidalRadius outcome, and no initial condition computed from such
\* a tidal radius is integrated.
Degenerate(rel) == rel.r_tidal.den <= 0
C9_DegenerateSignalled ==
    /\ (\E k \in 1..Len(ics_out) : Degenerate(ics_out[k][1].rel))
           => pc = "DegenerateTidalRadius"
    /\ \A k \in 1..Len(scan_out) : \A arm \in 1..2 :
           ~Degenerate(RelOf(scan_out[k][arm]))
    /\ \A k \in 1..Len(vmap_out) : \A arm \in 1..2 :
           ~Degenerate(RelOf(vmap_out[k][arm]))

-----------------------------------------------------------------------------
(* Claims about leapfrog_run (specification SpecLeapfrog)                    *)

StrictlyIncreasing(g) == \A j \in 1..(Len(g) - 1) : g[j] < g[j + 1]
Uniform(g) == \A j \in 1..(Len(g) - 1) : g[j + 1] - g[j] = g[2] - g[1]
LastStep(g) == At(g, -1) - At(g, -2)

\* C5 as stated: a zero computed step is replaced by a non-zero fallback, a
\* non-zero computed step is carried as is.
C5_ZeroStepFallback ==
    \A k \in 1..Len(lf_dts) :
        /\ lf_dts[k][1] = 0 => lf_dts[k][2] # 0
        /\ lf_dts[k][1] # 0 => lf_dts[k][2] = lf_dts[k][1]

\* C5 amended: a non-zero computed step is replaced by the grid's last step
\* size ts[-1] - ts[-2], a zero computed step is carried as zero; the carried
\* step is the size of the next leapfrog step.
C5_CarriedStep ==
    /\ \A k \in 1..Len(lf_dts) :
           /\ lf_dts[k][1] # 0 => lf_dts[k][2] = LastStep(lf_ts)
           /\ lf_dts[k][1] = 0 => lf_dts[k][2] = 0
    /\ \A k \in 1..(Len(lf_steps) - 1) : lf_steps[k + 1][2] = lf_dts[k][2]

C5_Witness ==
    /\ lf_pc = "done"
    /\ \E k \in 1..Len(lf_dts) : lf_dts[k][1] = 0 /\ lf_dts[k][2] = 0
    /\ \E k \in 1..Len(lf_dts) : lf_dts[k][1] # 0 /\ lf_dts[k][2] # 0

\* C6 as stated: on every strictly increasing grid the output has len(ts)
\* states, the first is w0, step k has size ts[k] - ts[k-1] and the time
\* carried after k steps is ts[k].
C6_AlignedOnEveryGrid ==
    (lf_pc = "done" /\ StrictlyIncreasing(lf_ts)) =>
        /\ Len(lf_ws) = Len(lf_ts)
        /\ lf_ws[1] = lf_w0
        /\ \A k \in 1..Len(lf_steps) :
               /\ lf_steps[k][2] = lf_ts[k + 1] - lf_ts[k]
               /\ lf_steps[k][3] = lf_ts[k + 1]

\* C6 amended: on every strictly increasing grid the output has len(ts)
\* states and the first is w0; the first step has size ts[1] - ts[0] and every
\* later step has size ts[-1] - ts[-2]; when the grid is uniform, step k has
\* size ts[k] - ts[k-1] and the time carried after k steps is ts[k].
C6_AlignedOnUniformGrids ==
    (lf_pc = "done" /\ StrictlyIncreasing(lf_ts)) =>
        /\ Len(lf_ws) = Len(lf_ts)
        /\ lf_ws[1] = lf_w0
        /\ \A k \in 1..Len(lf_steps) :
               lf_steps[k][2] = IF k = 1 THEN lf_ts[2] - lf_ts[1] ELSE LastStep(lf_ts)
        /\ Uniform(lf_ts) =>
               \A k \in 1..Len(lf_steps) :
                   /\ lf_steps[k][2] = lf_ts[k + 1] - lf_ts[k]
                   /\ lf_steps[k][3] = lf_ts[k + 1]

C6_Witness ==
    /\ lf_pc = "done"
    /\ StrictlyIncreasing(lf_ts)
    /\ Uniform(lf_ts)
    /\ Len(lf_ts) >= 4
    /\ lf_carry.t0 = At(lf_ts, -1)

-----------------------------------------------------------------------------
(* Claims about the sub-keys of release_model (specification SpecRelease)    *)

\* C7: within one release event the sub-keys of the axes are pairwise
\* distinct, and for each axis the sub-keys of two different release indices
\* (same seed) are distinct; release index 0 included.
C7_SubKeysDistinct ==
    /\ \A c \in 1..Len(rk_calls) : \A a, b \in 1..NAxes :
           a # b => rk_calls[c].keys[a] # rk_calls[c].keys[b]
    /\ \A c, d \in 1..Len(rk_calls) :
           (rk_calls[c].seed = rk_calls[d].seed /\ rk_calls[c].i # rk_calls[d].i)
               => \A a \in 1..NAxes : rk_calls[c].keys[a] # rk_calls[d].keys[a]

\* C8: identical (seed, index) give identical sub-keys and samples; changing
\* only the seed (to one that draws different integers) or only the release
\* index changes the sub-keys and the samples, for every release index.
C8_SeedSensitivity ==
    \A c, d \in 1..Len(rk_calls) :
        /\ (rk_calls[c].seed = rk_calls[d].seed /\ rk_calls[c].i = rk_calls[d].i)
               => /\ rk_calls[c].keys = rk_calls[d].keys
                  /\ rk_calls[c].samples = rk_calls[d].samples
        /\ (rk_calls[c].i = rk_calls[d].i /\ rk_calls[c].ints # rk_calls[d].ints)
               => /\ rk_calls[c].keys # rk_calls[d].keys
                  /\ rk_calls[c].samples # rk_calls[d].samples
        /\ (rk_calls[c].seed = rk_calls[d].seed /\ rk_calls[c].i # rk_calls[d].i)
               => /\ rk_calls[c].keys # rk_calls[d].keys
                  /\ rk_calls[c].samples # rk_calls[d].samples

-----------------------------------------------------------------------------
(* Claims about getitem_vec1time_index (specification SpecIndex)             *)

Dimensioned(index) == index.kind \in {"tuple", "shaped"}
NDims(index) == Len(index.val)

\* C10 as stated: IndexError, naming the index and the shape, for every tuple
\* or shaped index with more dimensions than the time array's rank, whatever
\* the rank (rank 1 included), and for an index with as many dimensions as a
\* rank-2 time array.
C10_IndexErrorAnyRank ==
    (gi_result # Pending /\ Dimensioned(gi_index)) =>
        /\ NDims(gi_index) > ndim(gi_t) => gi_result = IndexError(gi_index, gi_t)
        /\ (ndim(gi_t) = 2 /\ NDims(gi_index) = 2)
               => gi_result = IndexError(gi_index, gi_t)

\* C10 amended: for a time array of any rank other than 1, IndexError naming
\* the index and the shape is raised for every non-empty tuple index and
\* every shaped index with at least as many dimensions as the rank; for a
\* rank-1 time array no tuple or shaped index raises.
C10_IndexErrorRankNot1 ==
    (gi_result # Pending /\ Dimensioned(gi_index)) =>
        /\ (ndim(gi_t) # 1 /\ NDims(gi_index) >= ndim(gi_t)
              /\ ~(gi_index.kind = "tuple" /\ NDims(gi_index) = 0))
               => gi_result = IndexError(gi_index, gi_t)
        /\ ndim(gi_t) = 1 => gi_result.outcome = "return"

C10_Witness ==
    /\ gi_result.outcome = "IndexError"
    /\ gi_index.kind = "tuple"
    /\ ndim(gi_t) = 2
    /\ NDims(gi_index) = 2

\* a time array with a single one-element axis (Sz1)
OneElementAxis(t) == t = <<1>>
NonEmptyTuple(index) == index.kind = "tuple" /\ NDims(index) > 0

C12_PassThrough ==
    gi_result # Pending =>
        /\ (gi_index.kind = "tuple" /\ NDims(gi_index) = 0)
               => gi_result = Returned(SliceNone)
        /\ gi_index.kind \in {"int", "slice"} => gi_result = Returned(gi_index)
        /\ ((gi_index.kind = "shaped" \/ NonEmptyTuple(gi_index))
              /\ ndim(gi_t) >= 2 /\ NDims(gi_index) < ndim(gi_t))
               => gi_result = Returned(gi_index)

C12_Witness ==
    /\ gi_index.kind = "tuple"
    /\ NDims(gi_index) = 1
    /\ ndim(gi_t) = 2
    /\ gi_result = Returned(gi_index)

-----------------------------------------------------------------------------
(* Claims about Isochrone_centered.potential (specification SpecIsochrone)   *)

IsoMovingPlusBackground ==
    << [m |-> "m", a |-> "a",
        at |-> VecSub(iso_args.xyz, spline_eval_func(iso_args.t))],
       [m |-> "m_ext", a |-> "a_ext", at |-> iso_args.xyz] >>
IsoBackgroundAlone == << [m |-> "m_ext", a |-> "a_ext", at |-> iso_args.xyz] >>

\* C13 as stated: for t_min <= t <= t_max, both endpoints included, the
\* potential is the moving Isochrone about the spline position plus the
\* background; outside that closed interval it is the background alone.
C13_ClosedWindow ==
    iso_result # <<>> =>
        IF iso_args.t_min <= iso_args.t /\ iso_args.t <= iso_args.t_max
        THEN iso_result = IsoMovingPlusBackground
        ELSE iso_result = IsoBackgroundAlone

\* C13 amended: for t_min < t < t_max, both endpoints excluded, the potential
\* is the moving Isochrone about the spline position plus the background; for
\* every other t, t = t_min and t = t_max included, it is the background
\* alone.
C13_OpenWindow ==
    iso_result # <<>> =>
        IF iso_args.t_min < iso_args.t /\ iso_args.t < iso_args.t_max
        THEN iso_result = IsoMovingPlusBackground
        ELSE iso_result = IsoBackgroundAlone

C13_Witness ==
    /\ iso_args.t = iso_args.t_min
    /\ iso_args.t_min < iso_args.t_max
    /\ iso_result = IsoBackgroundAlone

-----------------------------------------------------------------------------
(* Claims about the release geometry (specification SpecGeometry)            *)

RgX == VScale(VFin(rg_in.x), Fin(PosUnit))
RgV == VScale(VFin(rg_in.v), Fin(VelUnit))
RgDone == rg_out # <<>>

\* the square of the distance of a finite position from the progenitor
Dist2(pos) ==
    LET d == VSub(pos, RgX)
    IN  d[1].v * d[1].v + d[2].v * d[2].v + d[3].v * d[3].v
AllFinite(u) == \A k \in 1..3 : u[k].k = "fin"

\* C14: for every progenitor state and every draw, the trailing position
\* offset from the progenitor is the negative of the leading position offset,
\* the trailing velocity kick is the negative of the leading velocity kick,
\* and finite leading and trailing positions are equidistant from the
\* progenitor, the trailing one displaced along r_hat by kr_samp times
\* +r_tidal and the leading one by kr_samp times -r_tidal.
C14_MirrorImages ==
    RgDone =>
        /\ VSub(rg_out.pos_trail, RgX) = VNeg(VSub(rg_out.pos_lead, RgX))
        /\ VSub(rg_out.v_trail, RgV) = VNeg(VSub(rg_out.v_lead, RgV))
        /\ AllFinite(rg_out.pos_trail) /\ AllFinite(rg_out.pos_lead) =>
             /\ Dist2(rg_out.pos_trail) = Dist2(rg_out.pos_lead)
             /\ VDot(VSub(rg_out.pos_trail, RgX), r_hat(VFin(rg_in.x)))
                  = FMul(kr_samp(rg_in.normal[1]), rg_in.r_tidal)
             /\ VDot(VSub(rg_out.pos_lead, RgX), r_hat(VFin(rg_in.x)))
                  = FMul(kr_samp(rg_in.normal[1]), FNeg(rg_in.r_tidal))

C14_Witness ==
    /\ RgDone
    /\ rg_in.normal[3] # 0
    /\ rg_in.normal[4] # 0
    /\ AllFinite(rg_out.pos_trail) /\ AllFinite(rg_out.v_trail)
    /\ Cardinality({k \in 1..3 : rg_out.pos_trail[k] # rg_out.pos_lead[k]}) = 2
    /\ rg_out.v_trail # rg_out.v_lead

-----------------------------------------------------------------------------
(* Claim about the loop of gen_stream_scan (specification Spec)              *)

\* the initial conditions of release k (0-based), as the carry holds them
ReleaseIcs(k) ==
    << pos_close_arr[k + 1], pos_far_arr[k + 1],
       vel_close_arr[k + 1], vel_far_arr[k + 1] >>

\* C15: in gen_stream_scan, at the start of iteration k the carry holds the
\* counter k and exactly the initial conditions of release k, and every index
\* used by any iteration, the last one included, into the arrays of initial
\* conditions and into the time grid is within bounds.
C15_ScanInvariant ==
    pc = "scan" =>
        /\ scan_carry.i = Len(scan_out)
        /\ Len(scan_out) < Len(pos_close_arr) =>
             scan_carry.ic = ReleaseIcs(Len(scan_out))
        /\ \A j \in 1..Len(scan_reads) : scan_reads[j].ok

\* the part of C15 about the carry alone
C15_CarryHoldsRelease ==
    pc = "scan" =>
        /\ scan_carry.i = Len(scan_out)
        /\ Len(scan_out) < Len(pos_close_arr) =>
             scan_carry.ic = ReleaseIcs(Len(scan_out))

====
